---------------------------- MODULE Spec2Model ----------------------------
(***************************************************************************)
(* Model of the two numeric routines of the repository that carry          *)
(* algorithmic content:                                                    *)
(*                                                                         *)
(*   - the quartile class-label loop of Processing.py (lines 30-42),       *)
(*     specification SpecDiscretizer;                                      *)
(*   - clusterval of toolbox.py (lines 75-104), specification Spec.        *)
(*                                                                         *)
(* Both routines share one module, so each specification parks the other   *)
(* routine's variables (empty vectors, pc = "notcalled").                  *)
(*                                                                         *)
(* Names.  clusterval's y, clusterid, i, j, f00, f01, f10, f11, rand and   *)
(* jaccard keep their names.  Processing.py also calls its vector y and    *)
(* its loop index i; here they are target and idx.                         *)
(*                                                                         *)
(* Numbers.  Inputs are integers.  A percentile of integers under linear   *)
(* interpolation at q in {25, 50, 75} is a multiple of 1/4, so percentiles *)
(* are carried as four times their value (Percentile4) and y[i] <= p is    *)
(* 4*y[i] <= 4*p; on such values the float arithmetic of the code is       *)
(* exact.  A quotient of clusterval is carried as the unreduced fraction   *)
(* num/den.                                                                *)
(*                                                                         *)
(* Left out: normalized_mutual_info_score (line 94 of toolbox.py), a       *)
(* library call on the two vectors that changes nothing clusterval's pair  *)
(* loop or its two quotients read.                                         *)
(***************************************************************************)
EXTENDS Integers, Sequences, FiniteSets

VARIABLES
    target,     \* Processing.py: y, the target vector (line 17)
    classY,     \* Processing.py: classY (line 31)
    idx,        \* Processing.py: i of the loop of line 32, 0-based
    y,          \* clusterval: y, class labels
    clusterid,  \* clusterval: clusterid, cluster indices
    i,          \* clusterval: outer loop index (line 96), 0-based
    j,          \* clusterval: inner loop index (line 97), 0-based
    f00, f01, f10, f11,   \* clusterval: pair counts (line 95)
    rand,       \* clusterval: rand (line 102)
    jaccard,    \* clusterval: jaccard (line 103)
    pc,         \* clusterval: "loop", "returned", "raised"; "notcalled"
    visits      \* history: how often the loop body ran for each pair

vars == <<target, classY, idx, y, clusterid, i, j, f00, f01, f10, f11,
          rand, jaccard, pc, visits>>

discVars == <<target, classY, idx>>
valVars  == <<y, clusterid, i, j, f00, f01, f10, f11, rand, jaccard, pc, visits>>

---------------------------------------------------------------------------
(* Bounds of the model. *)

\* longest target vector drawn for the discretizer
MaxLenY == 5
\* target values are drawn from 1..MaxVal
MaxVal == 5
\* most observations drawn for clusterval
MaxObs == 4

\* class labels and cluster indices drawn for clusterval
Labels == {0, 1, 2}
Clusters == {0, 1, 2}

\* the target vector of the discretizer scenario
ScenarioY == <<1, 2, 3, 4, 5, 6, 7, 8>>
\* the label and cluster vectors of the validator scenario (among the
\* vectors Init draws)
ScenarioLabels == <<0, 0, 1, 1>>
ScenarioClusters == <<0, 1, 0, 1>>

\* what the cells of np.empty may hold before the loop writes them: the
\* memory is not initialised, so a class-like value or something else
Garbage == {0, 9}

---------------------------------------------------------------------------
(* Processing.py, lines 30-42: the class-label loop. *)

classNames == <<"Poor", "Lower", "Middle", "Upper">>

N_target == Len(target)

RECURSIVE Insert(_, _)
Insert(x, s) ==
    IF s = <<>> THEN <<x>>
    ELSE IF x <= Head(s) THEN <<x>> \o s
    ELSE <<Head(s)>> \o Insert(x, Tail(s))

RECURSIVE Sort(_)
Sort(s) == IF s = <<>> THEN <<>> ELSE Insert(Head(s), Sort(Tail(s)))

\* a mutant of Percentile4: the order statistics are read from the vector
\* as given, without sorting it
Percentile4Unsorted(a, q) ==
    LET n    == Len(a)
        pos4 == (n - 1) * (q \div 25)
        lo   == pos4 \div 4
        r    == pos4 % 4
        hi   == IF r = 0 THEN lo ELSE lo + 1
    IN  (4 - r) * a[lo + 1] + r * a[hi + 1]

\* np.percentile(a, q), times 4: the virtual index (n-1)*q/100 into the
\* sorted vector, linear interpolation between the two order statistics
\* around it.  q is 25, 50 or 75.
Percentile4(a, q) ==
    LET s    == Sort(a)
        n    == Len(a)
        pos4 == (n - 1) * (q \div 25)
        lo   == pos4 \div 4
        r    == pos4 % 4
        hi   == IF r = 0 THEN lo ELSE lo + 1
    IN  (4 - r) * s[lo + 1] + r * s[hi + 1]

\* a mutant of ClassOf: strict comparisons
ClassOfStrict(v, a) ==
    IF 4 * v < Percentile4(a, 25) THEN 0
    ELSE IF 4 * v < Percentile4(a, 50) THEN 1
    ELSE IF 4 * v < Percentile4(a, 75) THEN 2
    ELSE 3

\* a mutant of ClassOf: the labels of the two middle branches exchanged
ClassOfSwapped(v, a) ==
    IF 4 * v <= Percentile4(a, 25) THEN 0
    ELSE IF 4 * v <= Percentile4(a, 50) THEN 2
    ELSE IF 4 * v <= Percentile4(a, 75) THEN 1
    ELSE 3

\* the if / elif chain of lines 33-40 for the value v of the vector a
ClassOf(v, a) ==
    IF 4 * v <= Percentile4(a, 25) THEN 0
    ELSE IF 4 * v <= Percentile4(a, 50) THEN 1
    ELSE IF 4 * v <= Percentile4(a, 75) THEN 2
    ELSE 3

\* one iteration of the loop of line 32
Classify ==
    /\ idx < N_target
    /\ classY' = [classY EXCEPT ![idx + 1] = ClassOf(target[idx + 1], target)]
    /\ idx' = idx + 1
    /\ UNCHANGED <<target, valVars>>

\* the loop of line 32 has run to its end
DiscretizerDone == idx = N_target

---------------------------------------------------------------------------
(* toolbox.py, lines 93-104: clusterval. *)

N == Len(y)

Unassigned == [tag |-> "unassigned", num |-> 0, den |-> 0]

\* a mutant of Div: IEEE division, no error on a zero divisor
DivSilent(a, b) ==
    IF b = 0
    THEN [tag |-> IF a = 0 THEN "nan" ELSE "inf", num |-> a, den |-> 0]
    ELSE [tag |-> "float", num |-> a, den |-> b]

\* np.float(a)/b: np.float (in the NumPy releases that have it) is the
\* builtin float, b a Python int; dividing by zero raises ZeroDivisionError
Div(a, b) ==
    IF b = 0
    THEN [tag |-> "ZeroDivisionError", num |-> a, den |-> 0]
    ELSE [tag |-> "float", num |-> a, den |-> b]

\* a mutant of Bucket: the two "same class" buckets exchanged
BucketSwapped(a, b) ==
    IF y[a + 1] # y[b + 1] /\ clusterid[a + 1] # clusterid[b + 1] THEN "f00"
    ELSE IF y[a + 1] = y[b + 1] /\ clusterid[a + 1] = clusterid[b + 1] THEN "f10"
    ELSE IF y[a + 1] = y[b + 1] /\ clusterid[a + 1] # clusterid[b + 1] THEN "f11"
    ELSE "f01"

\* a mutant of Bucket: the first test joined by "or"
BucketOr(a, b) ==
    IF y[a + 1] # y[b + 1] \/ clusterid[a + 1] # clusterid[b + 1] THEN "f00"
    ELSE IF y[a + 1] = y[b + 1] /\ clusterid[a + 1] = clusterid[b + 1] THEN "f11"
    ELSE IF y[a + 1] = y[b + 1] /\ clusterid[a + 1] # clusterid[b + 1] THEN "f10"
    ELSE "f01"

\* the if / elif chain of lines 98-101 for the pair (a, b)
Bucket(a, b) ==
    IF y[a + 1] # y[b + 1] /\ clusterid[a + 1] # clusterid[b + 1] THEN "f00"
    ELSE IF y[a + 1] = y[b + 1] /\ clusterid[a + 1] = clusterid[b + 1] THEN "f11"
    ELSE IF y[a + 1] = y[b + 1] /\ clusterid[a + 1] # clusterid[b + 1] THEN "f10"
    ELSE "f01"

\* a mutant of InnerRange: range(i + 1), which pairs i with itself
InnerRangeInclusive(a) == 0 .. a

\* range(i) of line 97
InnerRange(a) == 0 .. (a - 1)

\* the pairs the loops of lines 96-97 can name
PairSlots == {p \in (0 .. N) \X (0 .. N) : p[2] <= p[1] /\ p[1] < N}

\* the body of the inner loop (lines 98-101) for the pair (i, j)
InnerBody ==
    /\ pc = "loop"
    /\ i < N
    /\ j \in InnerRange(i)
    /\ LET b == Bucket(i, j) IN
        /\ f00' = IF b = "f00" THEN f00 + 1 ELSE f00
        /\ f11' = IF b = "f11" THEN f11 + 1 ELSE f11
        /\ f10' = IF b = "f10" THEN f10 + 1 ELSE f10
        /\ f01' = IF b = "f01" THEN f01 + 1 ELSE f01
    /\ visits' = [visits EXCEPT ![<<i, j>>] = @ + 1]
    /\ j' = j + 1
    /\ UNCHANGED <<y, clusterid, i, rand, jaccard, pc, discVars>>

\* the inner loop of line 97 is exhausted: the outer loop of line 96 advances
OuterNext ==
    /\ pc = "loop"
    /\ i < N
    /\ j \notin InnerRange(i)
    /\ i' = i + 1
    /\ j' = 0
    /\ UNCHANGED <<y, clusterid, f00, f01, f10, f11, rand, jaccard, pc,
                   visits, discVars>>

\* a mutant of JaccardQuotient: f11 left out of the divisor
JaccardNoF11 == Div(f11, f01 + f10)

\* line 102
RandQuotient == Div(f00 + f11, f00 + f01 + f10 + f11)

\* line 103
JaccardQuotient == Div(f11, f01 + f10 + f11)

\* lines 102-104: the two quotients and the return; the first division by
\* zero raises and ends the call
Finish ==
    /\ pc = "loop"
    /\ i = N
    /\ rand' = RandQuotient
    /\ jaccard' = IF RandQuotient.tag = "ZeroDivisionError" THEN Unassigned
                  ELSE JaccardQuotient
    /\ pc' = IF \/ RandQuotient.tag = "ZeroDivisionError"
                \/ JaccardQuotient.tag = "ZeroDivisionError"
             THEN "raised" ELSE "returned"
    /\ UNCHANGED <<y, clusterid, i, j, f00, f01, f10, f11, visits, discVars>>

---------------------------------------------------------------------------
(* Specifications. *)

SeqsUpTo(n, S) == UNION {[1 .. k -> S] : k \in 0 .. n}

\* clusterval is called on two vectors of one length
Init ==
    /\ \E k \in 0 .. MaxObs :
          /\ y \in [1 .. k -> Labels]
          /\ clusterid \in [1 .. k -> Clusters]
    /\ i = 0
    /\ j = 0
    /\ f00 = 0 /\ f01 = 0 /\ f10 = 0 /\ f11 = 0
    /\ rand = Unassigned
    /\ jaccard = Unassigned
    /\ pc = "loop"
    /\ visits = [p \in PairSlots |-> 0]
    /\ target = <<>>
    /\ classY = <<>>
    /\ idx = 0

Next == InnerBody \/ OuterNext \/ Finish

Spec == Init /\ [][Next]_vars

\* Processing.py runs on a target vector; classY starts as np.empty
InitDiscretizer ==
    /\ target \in SeqsUpTo(MaxLenY, 1 .. MaxVal) \cup {ScenarioY}
    /\ \E g \in Garbage : classY = [k \in 1 .. Len(target) |-> g]
    /\ idx = 0
    /\ y = <<>>
    /\ clusterid = <<>>
    /\ i = 0
    /\ j = 0
    /\ f00 = 0 /\ f01 = 0 /\ f10 = 0 /\ f11 = 0
    /\ rand = Unassigned
    /\ jaccard = Unassigned
    /\ pc = "notcalled"
    /\ visits = <<>>

NextDiscretizer == Classify

SpecDiscretizer == InitDiscretizer /\ [][NextDiscretizer]_vars

---------------------------------------------------------------------------
(* Properties of the class-label loop, checked under SpecDiscretizer. *)

P25 == Percentile4(target, 25)
P50 == Percentile4(target, 50)
P75 == Percentile4(target, 75)

ClassCount(c) == Cardinality({k \in 1 .. N_target : classY[k] = c})

TargetValues == {target[k] : k \in 1 .. N_target}

Balanced ==
    \A c \in 0 .. 3 :
        /\ N_target \div 4 <= ClassCount(c)
        /\ ClassCount(c) <= (N_target + 3) \div 4

C4_Original ==
    (DiscretizerDone /\ N_target >= 4 /\ Cardinality(TargetValues) >= 4)
        => Balanced

\* C4 amended: with N >= 4 and the values of y pairwise distinct every
\* class gets between floor(N/4) and ceil(N/4) members.
C4_BalancedDistinct ==
    (DiscretizerDone /\ N_target >= 4 /\ Cardinality(TargetValues) = N_target)
        => Balanced

\* five pairwise distinct values, classified two in class 0, one in each other
C4_Witness ==
    /\ DiscretizerDone
    /\ N_target = 5
    /\ Cardinality(TargetValues) = 5
    /\ ClassCount(0) = 2
    /\ ClassCount(1) = 1 /\ ClassCount(2) = 1 /\ ClassCount(3) = 1

\* C6: the classes written so far are monotonic in y: y[a] <= y[b] implies
\* classY[a] <= classY[b].
C6_Monotonic ==
    \A a, b \in 1 .. idx :
        target[a] <= target[b] => classY[a] <= classY[b]

\* a finished run with a strictly ordered pair in different classes and a
\* pair of equal values
C6_Witness ==
    /\ DiscretizerDone
    /\ \E a, b \in 1 .. N_target :
        target[a] < target[b] /\ classY[a] < classY[b]
    /\ \E a, b \in 1 .. N_target :
        a # b /\ target[a] = target[b] /\ classY[a] = classY[b]

---------------------------------------------------------------------------
(* Properties of clusterval, checked under Spec. *)

Finished == pc \in {"returned", "raised"}

IsScenario == y = ScenarioLabels /\ clusterid = ScenarioClusters

IsZero(q) == q.tag = "float" /\ q.num = 0
IsOne(q) == q.tag = "float" /\ q.num = q.den
InUnit(q) == q.tag = "float" /\ 0 <= q.num /\ q.num <= q.den

Total == f00 + f01 + f10 + f11
JaccardDen == f01 + f10 + f11
ZeroDen == Total = 0 \/ JaccardDen = 0

AllPairs == (N * (N - 1)) \div 2

\* C2 as stated: the scenario counts f00=0, f01=2, f10=2, f11=0 and returns
\* Rand = 0 and Jaccard = 0.
C2_Original ==
    (Finished /\ IsScenario) =>
        /\ f00 = 0 /\ f01 = 2 /\ f10 = 2 /\ f11 = 0
        /\ pc = "returned"
        /\ IsZero(rand)
        /\ IsZero(jaccard)

\* C2 amended: the scenario counts f00=2, f01=2, f10=2, f11=0 over its 6
\* pairs and returns Rand = 2/6 and Jaccard = 0/4 = 0.
C2_Scenario ==
    (Finished /\ IsScenario) =>
        /\ f00 = 2 /\ f01 = 2 /\ f10 = 2 /\ f11 = 0
        /\ pc = "returned"
        /\ rand = [tag |-> "float", num |-> 2, den |-> 6]
        /\ jaccard = [tag |-> "float", num |-> 0, den |-> 4]

\* clusterval has returned on the scenario
C2_Witness == pc = "returned" /\ IsScenario /\ Total = 6

Relabeling ==
    \A a, b \in 1 .. N : (clusterid[a] = clusterid[b]) <=> (y[a] = y[b])

SomeLabelRepeats == \E a, b \in 1 .. N : a # b /\ y[a] = y[b]

\* C3 as stated, on vectors of at least two observations: for every
\* clusterid that is a bijective renaming of y, the labels all distinct or
\* not, clusterval returns Rand = 1 and Jaccard = 1.
C3_Original ==
    (Finished /\ N >= 2 /\ Relabeling) =>
        pc = "returned" /\ IsOne(rand) /\ IsOne(jaccard)

\* C3 amended: for every clusterid that is a bijective renaming of a y in
\* which some label occurs twice, clusterval returns Rand = 1 and Jaccard = 1;
\* when the labels are pairwise distinct a denominator is zero and the call
\* raises instead of returning.
C3_RelabelingWithRepeat ==
    /\ (Finished /\ Relabeling /\ SomeLabelRepeats) =>
            pc = "returned" /\ IsOne(rand) /\ IsOne(jaccard)
    /\ (Finished /\ Relabeling /\ ~SomeLabelRepeats) =>
            pc = "raised" /\ ZeroDen

\* a proper renaming of a vector with a repeated and a differing label
C3_Witness ==
    /\ pc = "returned"
    /\ Relabeling
    /\ SomeLabelRepeats
    /\ \A a \in 1 .. N : clusterid[a] # y[a]
    /\ f00 > 0
    /\ IsOne(rand) /\ IsOne(jaccard)

\* C5 as stated, on vectors of at least two observations: with a zero
\* denominator no error is signalled, the call returns and an index is NaN
\* or inf.
C5_Original ==
    (Finished /\ N >= 2 /\ ZeroDen) =>
        /\ pc = "returned"
        /\ rand.tag \in {"nan", "inf"} \/ jaccard.tag \in {"nan", "inf"}

\* C5 amended: with a zero denominator the division raises
\* ZeroDivisionError and clusterval returns nothing: the Rand division when
\* f00+f01+f10+f11 = 0, otherwise the Jaccard division.
C5_RaisesZeroDivision ==
    (Finished /\ ZeroDen) =>
        /\ pc = "raised"
        /\ IF Total = 0
           THEN rand.tag = "ZeroDivisionError" /\ jaccard = Unassigned
           ELSE rand.tag = "float" /\ jaccard.tag = "ZeroDivisionError"

\* every pair differs in label and in cluster: Rand is computed, the
\* Jaccard division raises
C5_Witness ==
    /\ pc = "raised"
    /\ N >= 2
    /\ IsOne(rand)
    /\ jaccard.tag = "ZeroDivisionError"

\* C7: with both denominators non-zero clusterval returns
\* Rand = (f00+f11)/(f00+f01+f10+f11) and Jaccard = f11/(f01+f10+f11), both
\* in [0, 1].
C7_UnitInterval ==
    (Finished /\ ~ZeroDen) =>
        /\ pc = "returned"
        /\ rand.num = f00 + f11 /\ rand.den = Total
        /\ jaccard.num = f11 /\ jaccard.den = JaccardDen
        /\ InUnit(rand)
        /\ InUnit(jaccard)

\* both indices strictly between 0 and 1
C7_Witness ==
    /\ pc = "returned"
    /\ 0 < rand.num /\ rand.num < rand.den
    /\ 0 < jaccard.num /\ jaccard.num < jaccard.den

SingleCluster == \A a, b \in 1 .. N : clusterid[a] = clusterid[b]
SingleClass == \A a, b \in 1 .. N : y[a] = y[b]

\* C8 as stated: with a single cluster id or a single class label a
\* denominator is zero and the division by zero occurs.
C8_Original ==
    (Finished /\ (SingleCluster \/ SingleClass)) =>
        ZeroDen /\ pc = "raised"

\* C8 amended: with a single cluster id or a single class label a
\* denominator is zero, and the division by zero occurs, only when N <= 1;
\* for N >= 2 both denominators are N(N-1)/2 and clusterval returns.
C8_SingleGroup ==
    (Finished /\ (SingleCluster \/ SingleClass)) =>
        /\ ZeroDen <=> N <= 1
        /\ pc = "raised" <=> N <= 1
        /\ N >= 2 => (Total = AllPairs /\ JaccardDen = AllPairs /\ AllPairs > 0)

\* one class spread over several clusters: clusterval returns
C8_Witness ==
    /\ pc = "returned"
    /\ SingleClass
    /\ ~SingleCluster
    /\ N >= 3

Visited == {p \in DOMAIN visits : visits[p] > 0}

ProperPairs == {p \in (0 .. N - 1) \X (0 .. N - 1) : p[2] < p[1]}

SameLabel(p) == y[p[1] + 1] = y[p[2] + 1]
SameCluster(p) == clusterid[p[1] + 1] = clusterid[p[2] + 1]

\* C9: the loop body runs at most once for a pair, only for pairs j < i,
\* and counts each visited pair in the one bucket of its kind; the four
\* counts add up to the number of pairs visited; when the loops end every
\* pair has been visited and the counts add up to N(N-1)/2.
C9_PairLoop ==
    /\ \A p \in DOMAIN visits : visits[p] <= 1
    /\ Visited \subseteq ProperPairs
    /\ f00 = Cardinality({p \in Visited : ~SameLabel(p) /\ ~SameCluster(p)})
    /\ f11 = Cardinality({p \in Visited : SameLabel(p) /\ SameCluster(p)})
    /\ f10 = Cardinality({p \in Visited : SameLabel(p) /\ ~SameCluster(p)})
    /\ f01 = Cardinality({p \in Visited : ~SameLabel(p) /\ SameCluster(p)})
    /\ Total = Cardinality(Visited)
    /\ i = N => (Visited = ProperPairs /\ Total = AllPairs)

\* the loops have ended on at least three observations
C9_Witness ==
    /\ pc = "loop"
    /\ i = N
    /\ N >= 3
    /\ Total = AllPairs
    /\ f01 > 0 /\ f10 > 0

Choose2(n) == (n * (n - 1)) \div 2

RECURSIVE SumOver(_, _)
SumOver(f, S) ==
    IF S = {} THEN 0
    ELSE LET x == CHOOSE x \in S : TRUE IN f[x] + SumOver(f, S \ {x})

ClassVals == {y[a] : a \in 1 .. N}
ClusterVals == {clusterid[a] : a \in 1 .. N}

\* the contingency table and its marginals
n_kc == [p \in ClusterVals \X ClassVals |->
            Cardinality({a \in 1 .. N : clusterid[a] = p[1] /\ y[a] = p[2]})]
n_k == [k \in ClusterVals |-> Cardinality({a \in 1 .. N : clusterid[a] = k})]
n_c == [c \in ClassVals |-> Cardinality({a \in 1 .. N : y[a] = c})]

T11 == SumOver([p \in DOMAIN n_kc |-> Choose2(n_kc[p])], DOMAIN n_kc)
T10 == SumOver([c \in DOMAIN n_c |-> Choose2(n_c[c])], DOMAIN n_c) - T11
T01 == SumOver([k \in DOMAIN n_k |-> Choose2(n_k[k])], DOMAIN n_k) - T11
T00 == Choose2(N) - T11 - T10 - T01

\* C10: when the loops end the four counts are those of the contingency
\* table: f11 = sum C(n_kc,2), f10 = sum C(n_c,2) - f11,
\* f01 = sum C(n_k,2) - f11, f00 = C(N,2) - f11 - f10 - f01.
C10_Contingency ==
    i = N => (f11 = T11 /\ f10 = T10 /\ f01 = T01 /\ f00 = T00)

\* a finished call with pairs in three buckets
C10_Witness ==
    /\ Finished
    /\ N >= 3
    /\ f00 > 0 /\ f10 > 0 /\ f01 > 0
    /\ f11 = T11

===========================================================================
